---- MODULE Spec2Model ----
(***************************************************************************)
(* Fleet motion simulator (moving_sim.py) and the backend it posts to      *)
(* (main.py).                                                              *)
(*                                                                         *)
(* Units.  All arithmetic of the program is floating point; the model      *)
(* keeps it exact by counting in integers:                                 *)
(*   time      : seconds                                                   *)
(*   speed     : km/h                                                      *)
(*   distance  : DistUnit = 5e-7 km, so that the 1e-6 km floor of step     *)
(*               is MIN_DIST = 2 and the 0.1 km of the synthesized         *)
(*               segment is 200000                                         *)
(*   angle     : the arc of one DistUnit on a meridian, so that on a       *)
(*               meridian haversine_km(a, b) = |a.lat - b.lat|             *)
(*   frac      : BusThread.frac is held as FRAC_NUM * (sum of speed*dt),   *)
(*               the numerator of frac over FracDen(current segment):      *)
(*               (speed/3600 * dt) / max(1e-6, dist_km)                    *)
(*                 = 5000 * speed * dt / (9 * max(2, dist))                *)
(***************************************************************************)
EXTENDS Integers, Sequences, FiniteSets, TLC

\* ------------------------------------------------------------------ bounds
MaxDt == 2            \* largest dt_sec handed to a direct step call
MaxTicks == 2         \* iterations of run per BusThread in the fleet
NumRequests == 2      \* POST /start-sim requests
NumHandlers == 1      \* workers that serve POST /update
NumConcurrent == 2    \* update_bus calls in progress at once
MaxLag == 1           \* seconds per iteration a thread is blocked beyond the
                      \* post_interval of its sleep

\* --------------------------------------------------------------- constants
CAPACITY == 50        \* the literal 50 of BusThread.step
OCC_INIT_LO == 8      \* random.randint(8, 35)
OCC_INIT_HI == 35
MAX_ALIGHT == 3       \* random.randint(0, min(3, occupancy))
MAX_BOARD == 2        \* random.randint(0, min(2, 50 - occupancy))
MIN_DIST == 2         \* max(1e-6, seg["dist_km"]), in DistUnit
FRAC_NUM == 5000      \* 1 / (3600 * 5e-7) = 5000 / 9
FRAC_DEN == 9
POST_INTERVAL == 5     \* POST_INTERVAL = 5.0
MICRO_DEG == 222       \* round(lat, 6): 1e-6 degree is 222.39 angle units
SIMULATION_JITTER == 667   \* SIMULATION_JITTER = 0.000003 degree
SYNTH_DIST == 200000  \* "dist_km": 0.1 of the synthesized segment

None == "None"

Min(a, b) == IF a <= b THEN a ELSE b
Max(a, b) == IF a >= b THEN a ELSE b
Abs(a) == IF a >= 0 THEN a ELSE 0 - a

\* random.randint(lo, hi): the values a call may return
randint(lo, hi) == lo .. hi

\* random.uniform(22, 28): sampled draws of the speed
Speeds == {22, 27, 28}

\* ------------------------------------------------------------------ routes
\* A route_def is [name, stops]; a stop is <<lat, lon>>.  The model's routes
\* run along the meridian of longitude 0.
P(lat) == <<lat, 0>>

\* route_defs handed to BusThread directly: positive, zero-length and
\* sub-MIN_DIST segments, and a single-waypoint route
StepRouteDefs ==
    { [name |-> "zero-mid", stops |-> <<P(0), P(30000), P(30000), P(60000)>>],
      [name |-> "zero-zero", stops |-> <<P(0), P(0), P(0)>>],
      [name |-> "single", stops |-> <<P(7)>>],
      [name |-> "tiny", stops |-> <<P(0), P(1), P(30001)>>] }

\* great-circle distance in DistUnit; for two points of one meridian the
\* haversine formula gives R * |dlat|, which is |dlat| in the model's units
haversine_km(a_lat, a_lon, b_lat, b_lon) ==
    IF a_lon = b_lon THEN Abs(b_lat - a_lat)
    ELSE Abs(b_lat - a_lat) + Abs(b_lon - a_lon)

\* ---------------------------------------------------------------- BusThread
\* self.segments as built by __init__
Segments(waypoints) ==
    LET segs == [i \in 1 .. (Len(waypoints) - 1) |->
                   [a |-> waypoints[i], b |-> waypoints[i + 1],
                    dist_km |-> haversine_km(waypoints[i][1], waypoints[i][2],
                                             waypoints[i + 1][1], waypoints[i + 1][2])]]
    IN IF segs = << >>
       THEN <<[a |-> waypoints[1], b |-> waypoints[1], dist_km |-> SYNTH_DIST]>>
       ELSE segs

\* BusThread.__init__; occ and speed are the two random draws
BusThread(bus_id, route_def, post_interval, occ, speed) ==
    [bus_id |-> bus_id,
     route_name |-> route_def.name,
     waypoints |-> route_def.stops,
     post_interval |-> post_interval,
     current_segment |-> 0,
     frac |-> 0,
     occupancy |-> occ,
     speed_kmph |-> speed,
     segments |-> Segments(route_def.stops)]

\* the segment the bus is on (current_segment is 0-based)
CurSeg(self) == self.segments[self.current_segment + 1]

\* denominator of frac on the current segment: 3600 * max(1e-6, dist_km)
FracDen(self) == FRAC_DEN * Max(MIN_DIST, CurSeg(self).dist_km)

\* (variant: no special case for dist_km <= 0)
FracAdvanceNoSkip(self, dt_sec) ==
    self.frac + FRAC_NUM * self.speed_kmph * dt_sec

\* frac after the first if/else of step

FracAdvance(self, dt_sec) ==
    IF CurSeg(self).dist_km <= 0
    THEN FracDen(self)
    ELSE self.frac + FRAC_NUM * self.speed_kmph * dt_sec

\* self.frac >= 1.0 after the advance
Completes(self, dt_sec) == FracAdvance(self, dt_sec) >= FracDen(self)

\* The random outcomes of one step call:
\*   alight = (random.random() < 0.3), a = alighting_passengers,
\*   board  = (random.random() < 0.2), b = boarding_passengers
\* (variant: the alighting branch takes MAX_ALIGHT passengers off, unfloored)
OccAfterAlightUnfloored(self, rnd) ==
    IF rnd.alight THEN self.occupancy - MAX_ALIGHT ELSE self.occupancy

OccAfterAlight(self, rnd) ==
    IF rnd.alight THEN Max(0, self.occupancy - rnd.a) ELSE self.occupancy

Draws(self, dt_sec) ==
    IF ~Completes(self, dt_sec)
    THEN {[alight |-> FALSE, a |-> 0, board |-> FALSE, b |-> 0]}
    ELSE { rnd \in [alight : BOOLEAN, a : 0 .. MAX_ALIGHT,
                    board : BOOLEAN, b : 0 .. MAX_BOARD] :
             /\ IF rnd.alight
                THEN rnd.a \in randint(0, Min(MAX_ALIGHT, self.occupancy))
                ELSE rnd.a = 0
             /\ IF rnd.board
                THEN rnd.b \in randint(0, Min(MAX_BOARD, CAPACITY - OccAfterAlight(self, rnd)))
                ELSE rnd.b = 0 }

\* (variant: the boarding branch takes MAX_BOARD passengers on, uncapped)
OccAfterBoardUncapped(self, rnd) ==
    IF rnd.board THEN OccAfterAlight(self, rnd) + MAX_BOARD
    ELSE OccAfterAlight(self, rnd)

\* (variant: one passenger more boards than was drawn)
OccAfterBoardExtra(self, rnd) ==
    LET o1 == OccAfterAlight(self, rnd)
    IN IF rnd.board THEN Min(CAPACITY, o1 + rnd.b + 1) ELSE o1

\* occupancy after the boarding branch and the final cap
OccAfterBoard(self, rnd) ==
    LET o1 == OccAfterAlight(self, rnd)
        o2 == IF rnd.board THEN Min(CAPACITY, o1 + rnd.b) ELSE o1
    IN IF o2 > CAPACITY THEN CAPACITY ELSE o2

\* (variant: the segment-completion branch without the reset of frac)
CompleteNoReset(self, f, rnd) ==
    [self EXCEPT !.occupancy = OccAfterBoard(self, rnd),
                 !.current_segment = (self.current_segment + 1) % Len(self.segments),
                 !.frac = f]

\* the body of "if self.frac >= 1.0"
Complete(self, f, rnd) ==
    [self EXCEPT !.occupancy = OccAfterBoard(self, rnd),
                 !.current_segment = (self.current_segment + 1) % Len(self.segments),
                 !.frac = 0]

\* step(dt_sec) raises: self.segments[self.current_segment] has no such index
\* (IndexError), the divisor max(1e-6, dist_km) is zero (ZeroDivisionError),
\* or a random.randint(0, hi) of the completion branch has hi < 0 (ValueError)
StepRaises(self, dt_sec) ==
    \/ self.current_segment \notin 0 .. (Len(self.segments) - 1)
    \/ FracDen(self) = 0
    \/ /\ Completes(self, dt_sec)
       /\ \/ randint(0, Min(MAX_ALIGHT, self.occupancy)) = {}
          \/ \E al \in BOOLEAN, a \in 0 .. MAX_ALIGHT :
                LET rnd == [alight |-> al, a |-> a, board |-> TRUE, b |-> 0]
                IN /\ (al => a \in randint(0, Min(MAX_ALIGHT, self.occupancy)))
                   /\ (~al => a = 0)
                   /\ randint(0, Min(MAX_BOARD, CAPACITY - OccAfterAlight(self, rnd))) = {}

\* (variant: the progress beyond the end of the segment is carried over)
stepCarryOver(self, dt_sec, rnd) ==
    LET f == FracAdvance(self, dt_sec)
    IN IF f >= FracDen(self)
       THEN [Complete(self, f, rnd) EXCEPT !.frac = f - FracDen(self)]
       ELSE [self EXCEPT !.frac = f]

\* BusThread.step(dt_sec) under the random outcomes rnd
step(self, dt_sec, rnd) ==
    LET f == FracAdvance(self, dt_sec)
    IN IF f >= FracDen(self)
       THEN Complete(self, f, rnd)
       ELSE [self EXCEPT !.frac = f]

RECURSIVE GCD(_, _)
GCD(a, b) == IF b = 0 THEN a ELSE GCD(b, a % b)

\* interp(a, b, frac) with frac = n / d, to the nearest angle unit below
interp(a, b, n, d) ==
    LET g == GCD(n, d)
    IN a + ((b - a) * (n \div g)) \div (d \div g)

\* the two draws random.uniform(-SIMULATION_JITTER, SIMULATION_JITTER) of
\* get_current_latlon, sampled: <<jitter of lat, jitter of lon>>
JitterDraws == { <<0 - SIMULATION_JITTER, SIMULATION_JITTER>>,
                 <<0, 0>>,
                 <<SIMULATION_JITTER, 0 - SIMULATION_JITTER>> }

\* get_current_latlon under the jitter draws jlat, jlon
get_current_latlon(self, jlat, jlon) ==
    LET seg == CurSeg(self)
        lat == interp(seg.a[1], seg.b[1], self.frac, FracDen(self))
        lon == interp(seg.a[2], seg.b[2], self.frac, FracDen(self))
    IN <<lat + jlat, lon + jlon>>

\* get_current_latlon raises: no segment at self.current_segment
LatLonRaises(self) ==
    self.current_segment \notin 0 .. (Len(self.segments) - 1)

\* round(x, 6): the nearest multiple of 1e-6 degree
round6(x) == ((2 * x + MICRO_DEG) \div (2 * MICRO_DEG)) * MICRO_DEG

\* make_payload under the jitter draws
make_payload(self, jlat, jlon) ==
    LET ll == get_current_latlon(self, jlat, jlon)
    IN [bus_id |-> self.bus_id,
        latitude |-> round6(ll[1]),
        longitude |-> round6(ll[2]),
        occupancy |-> self.occupancy,
        route |-> self.route_name]

\* ROUTES: the route table of the simulator (two routes stand for the ten)
ROUTES ==
    << [name |-> "Amritsar-Jalandhar", stops |-> <<P(0), P(75000), P(150000)>>],
       [name |-> "Bathinda-Mansa", stops |-> <<P(300000), P(225000), P(300000)>>] >>

NUM_BUSES == Len(ROUTES)

\* what requests.post does to the caller: a response below 400, a response
\* of 400 or more, or an exception (connection error, timeout)
Outcomes == {"ok", "http_error", "exception"}

\* (variant: a failed post is retried at once)
AfterPostRetry(outcome) == IF outcome = "ok" THEN "sleep" ELSE "post"

\* (variant: the exception of a failed post is not caught)
AfterPostUncaught(outcome) == IF outcome = "exception" THEN "dead" ELSE "sleep"

\* where run continues after the try/except around requests.post
AfterPost(outcome) == "sleep"

\* ------------------------------------------------------------------- state
VARIABLES
    bt,      \* the BusThread objects, in creation order
    loc,     \* per BusThread, the locals of run: [pc, since, dt, payload]
             \*   since = time.time() - last_time
    obs,     \* per BusThread, an observer of run:
             \*   [slept, lag, steps, emits, exp_dt, r]
             \*   r = the outcome of the latest post, until the next clock read
    ticks,   \* per BusThread, the iterations of run begun (fleet only)
    thr,     \* the threads that run moving_sim.start_sim, in creation order:
             \*   [state, pc, i, threads, by]
    sim_thread,  \* main._sim_thread: 0 for None, else an index of thr
    req,     \* per /start-sim request: [pc, result, saw_alive, after_true]
             \*   result: what the request answers ("true", "false", "error500")
             \*   saw_alive, after_true: observers (see Check, Invoke)
    overlap, \* observer: some request was made while another was in progress
    table,   \* the rows of table "buses", in insertion order:
             \*   [id, bus_id, latitude, longitude, occupancy, route, last_update]
    hs,      \* per /update worker: [pc, payload, now_ts, found, loaded, result]
    lastok,  \* observer: per bus_id, the payload of the latest update that
             \*   was committed and how many were (counted up to 2)
    written, \* observer: per bus_id, the payloads of the concurrent updates
             \*   that answered ok
    hashes,  \* hash() of this process on the bus_id strings
    resp,    \* the latest answer of a query endpoint: [op, args, out]
    prev,    \* observer: the answer of /buses_enriched before the latest one
    mark,    \* observer of direct step calls: [active, seg, acc]
    last     \* observer of direct step calls: the segment the latest call
             \* started on, [called, seg]

vars == <<bt, loc, obs, ticks, thr, sim_thread, req, overlap, table, hs, lastok,
         written, hashes, resp, prev, mark, last>>

stepVars == <<mark, last>>
simVars == <<thr, sim_thread, req, overlap>>
queryVars == <<hashes, resp, prev>>
storeVars == <<table, hs, lastok, written, queryVars>>
busVars == <<bt, loc, obs, ticks>>

NoMark == [active |-> FALSE, seg |-> 0, acc |-> 0]

\* no query answered yet
NoResp == [op |-> "none"]

\* ------------------------------------------------- direct calls of step
InitStep ==
    /\ \E rd \in StepRouteDefs, occ \in randint(OCC_INIT_LO, OCC_INIT_HI), sp \in Speeds :
          bt = <<BusThread(101, rd, POST_INTERVAL, occ, sp)>>
    /\ loc = << >>
    /\ obs = << >>
    /\ ticks = << >>
    /\ thr = << >>
    /\ sim_thread = 0
    /\ req = << >>
    /\ overlap = FALSE
    /\ table = << >>
    /\ hs = << >>
    /\ lastok = << >>
    /\ written = << >>
    /\ hashes = << >>
    /\ resp = NoResp
    /\ prev = NoResp
    /\ mark = NoMark
    /\ last = [called |-> FALSE, seg |-> 0]

\* an observer starts timing at frac = 0 on a segment of positive length
Mark ==
    /\ bt[1].frac = 0
    /\ CurSeg(bt[1]).dist_km > 0
    /\ mark' = [active |-> TRUE, seg |-> bt[1].current_segment, acc |-> 0]
    /\ UNCHANGED <<bt, loc, obs, ticks, simVars, storeVars, last>>

\* one call bt[1].step(dt); the observer adds dt to its sum while the sum
\* does not pass segmentLength / (speed / 3600)
StepCallDt(dt) ==
    \E rnd \in Draws(bt[1], dt) :
      /\ bt' = [bt EXCEPT ![1] = step(bt[1], dt, rnd)]
      /\ mark' = IF mark.active
                 THEN IF FRAC_NUM * bt[1].speed_kmph * (mark.acc + dt)
                          <= FRAC_DEN * bt[1].segments[mark.seg + 1].dist_km
                      THEN [mark EXCEPT !.acc = mark.acc + dt]
                      ELSE NoMark
                 ELSE mark
      /\ last' = [called |-> TRUE, seg |-> bt[1].current_segment]
      /\ UNCHANGED <<loc, obs, ticks, simVars, storeVars>>

StepCall == \E dt \in 0 .. MaxDt : StepCallDt(dt)

StepCallPositive == \E dt \in 1 .. MaxDt : StepCallDt(dt)

NextStep == Mark \/ StepCall

SpecStep == InitStep /\ [][NextStep]_vars

\* a vehicle that keeps ticking with positive dt
FairStep == SpecStep /\ WF_vars(StepCallPositive)

\* ------------------------------- direct calls of the position and snapshot
\* (variant: get_current_latlon keeps its latitude jitter in self.frac)
SelfAfterLatLonStored(self, jlat, jlon) == [self EXCEPT !.frac = Max(0, @ + jlat)]

\* self after get_current_latlon: the method assigns no attribute
SelfAfterLatLon(self, jlat, jlon) == self

\* one call bt[1].get_current_latlon()
LatLonCall ==
    /\ \E j \in JitterDraws :
          /\ resp' = [op |-> "latlon", out |-> get_current_latlon(bt[1], j[1], j[2])]
          /\ bt' = [bt EXCEPT ![1] = SelfAfterLatLon(bt[1], j[1], j[2])]
    /\ prev' = IF prev.op = "step" THEN [prev EXCEPT !.calls = Min(@ + 1, 2)] ELSE prev
    /\ UNCHANGED <<loc, obs, ticks, simVars, table, hs, lastok, written, hashes, stepVars>>

\* one call bt[1].make_payload(), which calls get_current_latlon
PayloadCall ==
    /\ \E j \in JitterDraws :
          /\ resp' = [op |-> "payload", out |-> make_payload(bt[1], j[1], j[2])]
          /\ bt' = [bt EXCEPT ![1] = SelfAfterLatLon(bt[1], j[1], j[2])]
    /\ prev' = IF prev.op = "step" THEN [prev EXCEPT !.calls = Min(@ + 1, 2)] ELSE prev
    /\ UNCHANGED <<loc, obs, ticks, simVars, table, hs, lastok, written, hashes, stepVars>>

\* one call bt[1].step(dt); the observer prev keeps the object as the call
\* left it and counts the position and snapshot calls since (up to 2)
SnapStep ==
    /\ \E dt \in 0 .. MaxDt : \E rnd \in Draws(bt[1], dt) :
          /\ bt' = [bt EXCEPT ![1] = step(bt[1], dt, rnd)]
          /\ prev' = [op |-> "step", self |-> step(bt[1], dt, rnd), calls |-> 0]
    /\ resp' = NoResp
    /\ UNCHANGED <<loc, obs, ticks, simVars, table, hs, lastok, written, hashes, stepVars>>

\* one call bt[1].step(dt); the observer prev keeps dt and the object the
\* call was made on
TracedStep ==
    /\ \E dt \in 0 .. MaxDt : \E rnd \in Draws(bt[1], dt) :
          /\ bt' = [bt EXCEPT ![1] = step(bt[1], dt, rnd)]
          /\ prev' = [op |-> "step", dt |-> dt, before |-> bt[1]]
    /\ UNCHANGED <<loc, obs, ticks, simVars, table, hs, lastok, written, hashes,
                   resp, stepVars>>

SpecTraced == InitStep /\ [][TracedStep]_vars

NextSnap == LatLonCall \/ PayloadCall \/ SnapStep

SpecSnap == InitStep /\ [][NextSnap]_vars

\* ------------------------------------------------------- BusThread.run
NewLoc == [pc |-> "new", since |-> 0, dt |-> 0, payload |-> None]

NewObs == [slept |-> 0, lag |-> 0, steps |-> 0, emits |-> 0, exp_dt |-> 0,
           r |-> None]

\* Thread.start(): run is entered
StartedLoc == [NewLoc EXCEPT !.pc = "begin"]

\* last_time = time.time()
RunBegin(t) ==
    /\ loc[t].pc = "begin"
    /\ loc' = [loc EXCEPT ![t].pc = "top", ![t].since = 0]
    /\ obs' = [obs EXCEPT ![t].lag = 0, ![t].slept = 0]
    /\ UNCHANGED bt

\* time passes for thread t while it is blocked: time.sleep(post_interval)
\* runs its course, or one more second goes by inside requests.post or
\* oversleeping (at most MaxLag such seconds per iteration)
Elapse(t) ==
    /\ loc[t].pc \in {"post", "sleep"}
    /\ loc[t].pc = "sleep" => bt[t].post_interval >= 0
    /\ IF loc[t].pc = "sleep" /\ obs[t].slept < bt[t].post_interval
       THEN /\ obs' = [obs EXCEPT ![t].slept = bt[t].post_interval]
            /\ loc' = [loc EXCEPT ![t].since = @ + bt[t].post_interval]
       ELSE /\ obs[t].lag < MaxLag
            /\ obs' = [obs EXCEPT ![t].lag = @ + 1]
            /\ loc' = [loc EXCEPT ![t].since = @ + 1]
    /\ UNCHANGED bt

\* now = time.time(); dt = now - last_time; last_time = now
ReadClock(t) ==
    /\ loc[t].pc = "top"
    /\ loc' = [loc EXCEPT ![t].pc = "step",
                          ![t].dt = loc[t].since,
                          ![t].since = 0]
    /\ obs' = [obs EXCEPT ![t].exp_dt = obs[t].lag + obs[t].slept,
                          ![t].lag = 0, ![t].slept = 0,
                          ![t].steps = 0, ![t].emits = 0, ![t].r = None]
    /\ UNCHANGED bt

\* (variant: occupancy is one attribute shared by all BusThread objects)
SetShared(bts, t, new) ==
    [u \in DOMAIN bts |->
       IF u = t THEN new ELSE [bts[u] EXCEPT !.occupancy = new.occupancy]]

\* step assigns the attributes of self only
SetSelf(bts, t, new) == [bts EXCEPT ![t] = new]

\* self.step(dt)
RunStep(t) ==
    /\ loc[t].pc = "step"
    /\ \E rnd \in Draws(bt[t], loc[t].dt) :
          bt' = SetSelf(bt, t, step(bt[t], loc[t].dt, rnd))
    /\ loc' = [loc EXCEPT ![t].pc = "payload", ![t].dt = 0]
    /\ obs' = [obs EXCEPT ![t].steps = @ + 1, ![t].exp_dt = 0]

\* payload = self.make_payload()
RunMakePayload(t) ==
    /\ loc[t].pc = "payload"
    /\ \E j \in JitterDraws :
          loc' = [loc EXCEPT ![t].pc = "post",
                             ![t].payload = make_payload(bt[t], j[1], j[2])]
    /\ UNCHANGED <<bt, obs>>

\* r = requests.post(BACKEND_UPDATE_URL, json=payload, timeout=4) and the
\* prints of its three outcomes; then time.sleep(self.post_interval) begins
RunPost(t) ==
    /\ loc[t].pc = "post"
    /\ \E outcome \in Outcomes :
         /\ loc' = [loc EXCEPT ![t].pc = AfterPost(outcome), ![t].payload = None]
         /\ obs' = [obs EXCEPT ![t].emits = @ + 1, ![t].r = outcome]
    /\ UNCHANGED bt

\* time.sleep(self.post_interval) returns
RunWake(t) ==
    /\ loc[t].pc = "sleep"
    /\ bt[t].post_interval >= 0
    /\ obs[t].slept >= bt[t].post_interval
    /\ loc' = [loc EXCEPT ![t].pc = "top"]
    /\ UNCHANGED <<bt, obs>>

\* time.sleep(self.post_interval) with a negative argument raises ValueError,
\* which nothing in run catches: the thread ends
SleepRaises(t) ==
    /\ loc[t].pc = "sleep"
    /\ bt[t].post_interval < 0
    /\ loc' = [loc EXCEPT ![t].pc = "dead"]
    /\ UNCHANGED <<bt, obs>>

\* an iteration of run of a thread whose post_interval is not negative
RunNext(t) ==
    \/ RunBegin(t)
    \/ Elapse(t)
    \/ ReadClock(t)
    \/ RunStep(t)
    \/ RunMakePayload(t)
    \/ RunPost(t)
    \/ RunWake(t)

\* one BusThread, constructed on a route of the table and started
InitRun ==
    /\ \E i \in DOMAIN ROUTES, occ \in randint(OCC_INIT_LO, OCC_INIT_HI), sp \in Speeds :
          bt = <<BusThread(101, ROUTES[i], POST_INTERVAL, occ, sp)>>
    /\ loc = <<StartedLoc>>
    /\ obs = <<NewObs>>
    /\ ticks = <<0>>
    /\ thr = << >>
    /\ sim_thread = 0
    /\ req = << >>
    /\ overlap = FALSE
    /\ table = << >>
    /\ hs = << >>
    /\ lastok = << >>
    /\ written = << >>
    /\ hashes = << >>
    /\ resp = NoResp
    /\ prev = NoResp
    /\ mark = NoMark
    /\ last = [called |-> FALSE, seg |-> 0]

NextRun == RunNext(1) /\ UNCHANGED <<ticks, simVars, storeVars, stepVars>>

SpecRun == InitRun /\ [][NextRun]_vars

\* the thread is scheduled, time passes, and requests.post returns or raises
\* (timeout=4)
FairRun ==
    /\ SpecRun
    /\ WF_vars(RunBegin(1) /\ UNCHANGED <<ticks, simVars, storeVars, stepVars>>)
    /\ WF_vars(Elapse(1) /\ UNCHANGED <<ticks, simVars, storeVars, stepVars>>)
    /\ WF_vars(ReadClock(1) /\ UNCHANGED <<ticks, simVars, storeVars, stepVars>>)
    /\ WF_vars(RunStep(1) /\ UNCHANGED <<ticks, simVars, storeVars, stepVars>>)
    /\ WF_vars(RunMakePayload(1) /\ UNCHANGED <<ticks, simVars, storeVars, stepVars>>)
    /\ WF_vars(RunPost(1) /\ UNCHANGED <<ticks, simVars, storeVars, stepVars>>)
    /\ WF_vars(RunWake(1) /\ UNCHANGED <<ticks, simVars, storeVars, stepVars>>)

\* ------------------------------------------------ moving_sim.start_sim
\* the draws of BusThread.__init__ sampled when start_sim builds the fleet
SpawnOccs == {OCC_INIT_HI}
SpawnSpeeds == {27}

\* one pass of "for i in range(num_buses)": build BusThread i, start it,
\* append it, sleep 0.2
Spawn(h) ==
    /\ thr[h].state = "alive"
    /\ thr[h].pc = "spawn"
    /\ thr[h].i < NUM_BUSES
    /\ \E occ \in SpawnOccs, sp \in SpawnSpeeds :
          bt' = Append(bt, BusThread(101 + thr[h].i,
                                     ROUTES[(thr[h].i % Len(ROUTES)) + 1],
                                     POST_INTERVAL, occ, sp))
    /\ loc' = Append(loc, StartedLoc)
    /\ obs' = Append(obs, NewObs)
    /\ ticks' = Append(ticks, 0)
    /\ thr' = [thr EXCEPT ![h].i = @ + 1,
                          ![h].threads = Append(@, Len(bt) + 1)]
    /\ UNCHANGED <<sim_thread, req, overlap, storeVars, stepVars>>

\* the loop is over: print, then "while True: time.sleep(1)"
RunnerIdle(h) ==
    /\ thr[h].state = "alive"
    /\ thr[h].pc = "spawn"
    /\ thr[h].i >= NUM_BUSES
    /\ thr' = [thr EXCEPT ![h].pc = "idle"]
    /\ UNCHANGED <<bt, loc, obs, ticks, sim_thread, req, overlap, storeVars, stepVars>>

\* an iteration of run begins only while the thread has begun fewer than
\* MaxTicks
FleetRun(t) ==
    /\ \/ RunBegin(t)
       \/ Elapse(t)
       \/ ReadClock(t) /\ ticks[t] < MaxTicks
       \/ RunStep(t)
       \/ RunMakePayload(t)
       \/ RunPost(t)
       \/ RunWake(t)
    /\ ticks' = IF loc[t].pc = "top" THEN [ticks EXCEPT ![t] = @ + 1] ELSE ticks
    /\ UNCHANGED <<simVars, storeVars, stepVars>>

NewThread(by) == [state |-> "new", pc |-> "spawn", i |-> 0, threads |-> << >>, by |-> by]

\* "python moving_sim.py": the main thread runs start_sim()
InitFleet ==
    /\ bt = << >>
    /\ loc = << >>
    /\ obs = << >>
    /\ ticks = << >>
    /\ thr = <<[NewThread(0) EXCEPT !.state = "alive"]>>
    /\ sim_thread = 0
    /\ req = << >>
    /\ overlap = FALSE
    /\ table = << >>
    /\ hs = << >>
    /\ lastok = << >>
    /\ written = << >>
    /\ hashes = << >>
    /\ resp = NoResp
    /\ prev = NoResp
    /\ mark = NoMark
    /\ last = [called |-> FALSE, seg |-> 0]

NextFleet ==
    \/ Spawn(1)
    \/ RunnerIdle(1)
    \/ \E t \in DOMAIN bt : FleetRun(t)

SpecFleet == InitFleet /\ [][NextFleet]_vars

\* ------------------------------- BusThread built from a caller's arguments
\* BusThread.__init__ raises: self.waypoints[0] of an empty list (IndexError)
\* when no segment was built; post_interval is stored unexamined
InitRaises(route_def, post_interval) == Len(route_def.stops) = 0

\* the arguments a caller may hand to BusThread(...): a route without
\* waypoints or a route of the table, a negative interval or the default
ConfigRouteDefs == {[name |-> "empty", stops |-> << >>], ROUTES[1]}

ConfigIntervals == {0 - 1, POST_INTERVAL}

Configs == [route_def : ConfigRouteDefs, post_interval : ConfigIntervals]

\* t = BusThread(bus_id, route_def, post_interval); t.start() for the next
\* configuration of the caller; a constructor that raises leaves no object
\* and the caller goes on (threads gets 0 in its place)
Construct(h) ==
    /\ thr[h].state = "alive"
    /\ thr[h].pc = "construct"
    /\ thr[h].i < Len(thr[h].configs)
    /\ LET c == thr[h].configs[thr[h].i + 1]
       IN IF InitRaises(c.route_def, c.post_interval)
          THEN /\ thr' = [thr EXCEPT ![h].i = @ + 1, ![h].threads = Append(@, 0)]
               /\ UNCHANGED <<bt, loc, obs, ticks>>
          ELSE /\ \E occ \in SpawnOccs, sp \in SpawnSpeeds :
                     bt' = Append(bt, BusThread(101 + thr[h].i, c.route_def,
                                                c.post_interval, occ, sp))
               /\ loc' = Append(loc, StartedLoc)
               /\ obs' = Append(obs, NewObs)
               /\ ticks' = Append(ticks, 0)
               /\ thr' = [thr EXCEPT ![h].i = @ + 1,
                                     ![h].threads = Append(@, Len(bt) + 1)]
    /\ UNCHANGED <<sim_thread, req, overlap, storeVars, stepVars>>

\* run of a constructed thread, whatever its post_interval
ConfigRun(t) ==
    \/ FleetRun(t)
    \/ SleepRaises(t) /\ UNCHANGED <<ticks, simVars, storeVars, stepVars>>

\* a caller with two configurations to build and start
InitConfig ==
    /\ bt = << >>
    /\ loc = << >>
    /\ obs = << >>
    /\ ticks = << >>
    /\ \E c1, c2 \in Configs :
          thr = <<[state |-> "alive", pc |-> "construct", i |-> 0,
                   threads |-> << >>, by |-> 0, configs |-> <<c1, c2>>]>>
    /\ sim_thread = 0
    /\ req = << >>
    /\ overlap = FALSE
    /\ table = << >>
    /\ hs = << >>
    /\ lastok = << >>
    /\ written = << >>
    /\ hashes = << >>
    /\ resp = NoResp
    /\ prev = NoResp
    /\ mark = NoMark
    /\ last = [called |-> FALSE, seg |-> 0]

NextConfig ==
    \/ Construct(1)
    \/ \E t \in DOMAIN bt : ConfigRun(t)

SpecConfig == InitConfig /\ [][NextConfig]_vars

\* ------------------------------------------- main._start_simulator_background
Requests == 1 .. NumRequests

NewReq == [pc |-> "idle", result |-> None, saw_alive |-> FALSE, after_true |-> FALSE]

InFlight(q) == req[q].pc \notin {"idle", "done"}

\* (variant: the guard that never finds a simulator running)
AlreadyRunningNever(st, threads) == FALSE

\* _sim_thread and _sim_thread.is_alive()
AlreadyRunning(st, threads) == st # 0 /\ threads[st].state = "alive"

\* POST /start-sim arrives and start_sim calls _start_simulator_background
Invoke(q) ==
    /\ req[q].pc = "idle"
    /\ req' = [req EXCEPT ![q].pc = "check",
                          ![q].after_true = \E p \in Requests : req[p].result = "true"]
    /\ overlap' = (overlap \/ \E p \in Requests : InFlight(p))
    /\ UNCHANGED <<bt, loc, obs, ticks, thr, sim_thread, storeVars, stepVars>>

\* if _sim_thread and _sim_thread.is_alive(): return False
Check(q) ==
    /\ req[q].pc = "check"
    /\ IF AlreadyRunning(sim_thread, thr)
       THEN req' = [req EXCEPT ![q].pc = "done", ![q].result = "false",
                               ![q].saw_alive = TRUE]
       ELSE req' = [req EXCEPT ![q].pc = "create"]
    /\ UNCHANGED <<bt, loc, obs, ticks, thr, sim_thread, overlap, storeVars, stepVars>>

\* importlib.import_module("moving_sim") raises: HTTPException 500
ImportFail(q) ==
    /\ req[q].pc = "create"
    /\ req' = [req EXCEPT ![q].pc = "done", ![q].result = "error500"]
    /\ UNCHANGED <<bt, loc, obs, ticks, thr, sim_thread, overlap, storeVars, stepVars>>

\* _sim_thread = threading.Thread(target=runner, ...)
Create(q) ==
    /\ req[q].pc = "create"
    /\ thr' = Append(thr, NewThread(q))
    /\ sim_thread' = Len(thr) + 1
    /\ req' = [req EXCEPT ![q].pc = "start"]
    /\ UNCHANGED <<bt, loc, obs, ticks, overlap, storeVars, stepVars>>

\* _sim_thread.start(); return True.  Starting a thread a second time raises
\* RuntimeError, which start_sim turns into HTTPException 500.
Start(q) ==
    /\ req[q].pc = "start"
    /\ IF thr[sim_thread].state = "new"
       THEN /\ thr' = [thr EXCEPT ![sim_thread].state = "alive"]
            /\ req' = [req EXCEPT ![q].pc = "done", ![q].result = "true"]
       ELSE /\ thr' = thr
            /\ req' = [req EXCEPT ![q].pc = "done", ![q].result = "error500"]
    /\ UNCHANGED <<bt, loc, obs, ticks, sim_thread, overlap, storeVars, stepVars>>

\* the backend process: no simulator yet, no request made.  The BusThreads
\* that start_sim starts run as in SpecFleet; their loops read and write
\* none of thr, sim_thread, req.
InitStart ==
    /\ bt = << >>
    /\ loc = << >>
    /\ obs = << >>
    /\ ticks = << >>
    /\ thr = << >>
    /\ sim_thread = 0
    /\ req = [q \in Requests |-> NewReq]
    /\ overlap = FALSE
    /\ table = << >>
    /\ hs = << >>
    /\ lastok = << >>
    /\ written = << >>
    /\ hashes = << >>
    /\ resp = NoResp
    /\ prev = NoResp
    /\ mark = NoMark
    /\ last = [called |-> FALSE, seg |-> 0]

NextStart ==
    \/ \E q \in Requests :
          Invoke(q) \/ Check(q) \/ ImportFail(q) \/ Create(q) \/ Start(q)
    \/ \E h \in DOMAIN thr : Spawn(h) \/ RunnerIdle(h)

SpecStart == InitStart /\ [][NextStart]_vars

\* ------------------------------------------------------- main.update_bus
\* A bus_id "PTCn" is held as the number n.
BusIds == {101, 102}

\* the BusUpdate payloads posted to /update
Payloads ==
    [bus_id : BusIds, latitude : {0, MICRO_DEG}, longitude : {0},
     occupancy : {8, 50}, route : {None, "Amritsar-Jalandhar"}]

\* int(time.time()) as read by a handler, sampled
Times == {0, 300}

Handlers == 1 .. NumHandlers

IdleHandler == [pc |-> "idle", payload |-> None, now_ts |-> 0, found |-> 0,
                loaded |-> None, result |-> None]

\* db.query(Bus).filter(Bus.bus_id == bus_id).first(): the index of the first
\* row with that bus_id, 0 for None
FirstRow(rows, bus_id) ==
    IF \E i \in DOMAIN rows : rows[i].bus_id = bus_id
    THEN CHOOSE i \in DOMAIN rows :
            /\ rows[i].bus_id = bus_id
            /\ \A j \in DOMAIN rows : rows[j].bus_id = bus_id => i <= j
    ELSE 0

\* (variant: the update branch does not assign bus.route)
AssignedKeepRoute(loaded, payload, now_ts) ==
    [loaded EXCEPT !.latitude = payload.latitude,
                   !.longitude = payload.longitude,
                   !.occupancy = payload.occupancy,
                   !.last_update = now_ts]

\* the "if bus:" branch: the loaded object after the five assignments
Assigned(loaded, payload, now_ts) ==
    [loaded EXCEPT !.latitude = payload.latitude,
                   !.longitude = payload.longitude,
                   !.occupancy = payload.occupancy,
                   !.route = payload.route,
                   !.last_update = now_ts]

\* the "else:" branch: Bus(...); the primary key is given by the insert
NewBus(id, payload, now_ts) ==
    [id |-> id, bus_id |-> payload.bus_id, latitude |-> payload.latitude,
     longitude |-> payload.longitude, occupancy |-> payload.occupancy,
     route |-> payload.route, last_update |-> now_ts]

Columns == {"latitude", "longitude", "occupancy", "route", "last_update"}

\* the UPDATE that commit flushes: it sets the columns whose value differs
\* from the one loaded, on the row with the loaded primary key
FlushUpdate(rows, loaded, new) ==
    [i \in DOMAIN rows |->
       IF rows[i].id = loaded.id
       THEN [c \in DOMAIN rows[i] |->
               IF c \in Columns /\ new[c] # loaded[c] THEN new[c] ELSE rows[i][c]]
       ELSE rows[i]]

\* update_bus(payload) up to db.commit(): the handler queries the row, reads
\* the clock (now) and assigns or builds the object
UpdBegin(h, payload, now) ==
    /\ hs[h].pc = "idle"
    /\ LET f == FirstRow(table, payload.bus_id)
       IN hs' = [hs EXCEPT ![h] = [pc |-> "commit", payload |-> payload,
                                   now_ts |-> now, found |-> f,
                                   loaded |-> IF f = 0 THEN None ELSE table[f],
                                   result |-> None]]
    /\ UNCHANGED <<table, lastok, queryVars, busVars, simVars, stepVars>>

\* a request arrives
UpdQuery(h) == \E payload \in Payloads, now \in Times : UpdBegin(h, payload, now)

\* db.commit() succeeds: the UPDATE or the INSERT is applied; 200 "ok"
UpdCommit(h) ==
    /\ hs[h].pc = "commit"
    /\ IF hs[h].found # 0
       THEN table' = FlushUpdate(table, hs[h].loaded,
                                 Assigned(hs[h].loaded, hs[h].payload, hs[h].now_ts))
       ELSE /\ \A i \in DOMAIN table : table[i].bus_id # hs[h].payload.bus_id
            /\ table' = Append(table, NewBus(Len(table) + 1, hs[h].payload, hs[h].now_ts))
    /\ hs' = [hs EXCEPT ![h] = [IdleHandler EXCEPT !.result = "ok"]]
    /\ lastok' = [lastok EXCEPT ![hs[h].payload.bus_id] =
                     [payload |-> hs[h].payload, n |-> Min(@.n + 1, 2)]]
    /\ UNCHANGED <<queryVars, busVars, simVars, stepVars>>

\* db.commit() raises (the database is locked, or the INSERT meets the unique
\* index on bus_id): rollback, HTTPException 500
UpdCommitFail(h) ==
    /\ hs[h].pc = "commit"
    /\ hs' = [hs EXCEPT ![h] = [IdleHandler EXCEPT !.result = "error500"]]
    /\ UNCHANGED <<table, lastok, queryVars, busVars, simVars, stepVars>>

\* the backend with an empty table
InitStore ==
    /\ bt = << >>
    /\ loc = << >>
    /\ obs = << >>
    /\ ticks = << >>
    /\ thr = << >>
    /\ sim_thread = 0
    /\ req = << >>
    /\ overlap = FALSE
    /\ table = << >>
    /\ hs = [h \in Handlers |-> IdleHandler]
    /\ lastok = [b \in BusIds |-> [payload |-> None, n |-> 0]]
    /\ written = << >>
    /\ hashes = << >>
    /\ resp = NoResp
    /\ prev = NoResp
    /\ mark = NoMark
    /\ last = [called |-> FALSE, seg |-> 0]

\* update_bus calls served one after another
NextStore ==
    /\ \E h \in Handlers :
          \/ (\A g \in Handlers : hs[g].pc = "idle") /\ UpdQuery(h)
          \/ UpdCommit(h)
          \/ UpdCommitFail(h)
    /\ UNCHANGED written

SpecStore == InitStore /\ [][NextStore]_vars

\* ------------------------------------- update_bus calls that run concurrently
\* (uvicorn runs the def endpoint in a thread pool; each call has its own
\* Session, SQLite serializes the commits)
ConcPayloads == {p \in Payloads : p.bus_id = 101 /\ p.route = None}

InitConc ==
    /\ bt = << >>
    /\ loc = << >>
    /\ obs = << >>
    /\ ticks = << >>
    /\ thr = << >>
    /\ sim_thread = 0
    /\ req = << >>
    /\ overlap = FALSE
    /\ table = << >>
    /\ hs = [h \in 1 .. NumConcurrent |-> IdleHandler]
    /\ lastok = [b \in BusIds |-> [payload |-> None, n |-> 0]]
    /\ written = [b \in BusIds |-> {}]
    /\ hashes = << >>
    /\ resp = NoResp
    /\ prev = NoResp
    /\ mark = NoMark
    /\ last = [called |-> FALSE, seg |-> 0]

NextConc ==
    \E h \in DOMAIN hs :
       \/ /\ \E payload \in ConcPayloads, now \in Times : UpdBegin(h, payload, now)
          /\ UNCHANGED written
       \/ /\ UpdCommit(h)
          /\ written' = [written EXCEPT ![hs[h].payload.bus_id] = @ \cup {hs[h].payload}]
       \/ /\ UpdCommitFail(h)
          /\ UNCHANGED written

SpecConc == InitConc /\ [][NextConc]_vars

\* ------------------------------------------------------------ main.nearest
\* haversine_m returns metres; the model counts distances in DistUnit
\* (UNITS_PER_M of them in a metre) and int(d) keeps the whole metres.
UNITS_PER_M == 2000

\* great-circle distance in DistUnit (as haversine_km: exact on a meridian)
haversine_m(lat1, lon1, lat2, lon2) ==
    IF lon1 = lon2 THEN Abs(lat2 - lat1)
    ELSE Abs(lat2 - lat1) + Abs(lon2 - lon1)

\* int(d) of a distance d in metres
int_m(d) == d \div UNITS_PER_M

\* the stop table, on the model's meridian: from the point 0 the second and
\* the third stop are one whole metre away on opposite sides, the fourth is
\* 0.9 m away and the first is the farthest
MASTER_STOPS ==
    << [name |-> "Amritsar Railway Station", lat |-> 9000, lon |-> 0],
       [name |-> "Golden Temple", lat |-> 2000, lon |-> 0],
       [name |-> "Jalandhar Bus Stand", lat |-> 0 - 2000, lon |-> 0],
       [name |-> "Ludhiana Railway Station", lat |-> 1800, lon |-> 0] >>

\* SQL NULL / Python None in a numeric column of "buses": a number that no
\* coordinate, occupancy or timestamp of the model takes
NULL == 0 - 1000000

\* rows of table "buses" as the schema admits them (latitude, longitude and
\* occupancy are nullable)
Row(bus_id, lat, lon, occ) ==
    [id |-> 0, bus_id |-> bus_id, latitude |-> lat, longitude |-> lon,
     occupancy |-> occ, route |-> None, last_update |-> 0]

\* the tables made of rows of the set rows, at most one per bus_id, in any
\* insertion order; the primary key follows the insertion order
TablesOf(rows) ==
    LET ids == {r.bus_id : r \in rows}
        seqs == UNION {[1 .. n -> rows] : n \in 0 .. Cardinality(ids)}
    IN { [i \in DOMAIN t |-> [t[i] EXCEPT !.id = i]] :
           t \in {u \in seqs : \A i, j \in DOMAIN u : i # j => u[i].bus_id # u[j].bus_id} }

\* list.sort(key=...) is stable: an element goes behind every element
\* whose key is not larger
\* (variant: the element goes in front of the elements with an equal key)
RECURSIVE InsertBeforeTies(_, _)
InsertBeforeTies(sorted, x) ==
    IF sorted = << >> THEN <<x>>
    ELSE IF Head(sorted).dist_m < x.dist_m
         THEN <<Head(sorted)>> \o InsertBeforeTies(Tail(sorted), x)
         ELSE <<x>> \o sorted

RECURSIVE Insert(_, _)
Insert(sorted, x) ==
    IF sorted = << >> THEN <<x>>
    ELSE IF Head(sorted).dist_m <= x.dist_m
         THEN <<Head(sorted)>> \o Insert(Tail(sorted), x)
         ELSE <<x>> \o sorted

\* xs.sort(key=lambda x: x["dist_m"])
RECURSIVE SortByDist(_)
SortByDist(xs) ==
    IF xs = << >> THEN << >>
    ELSE Insert(SortByDist(SubSeq(xs, 1, Len(xs) - 1)), xs[Len(xs)])

\* xs[:n]
SliceTo(xs, n) ==
    IF n >= 0 THEN SubSeq(xs, 1, Min(n, Len(xs)))
    ELSE SubSeq(xs, 1, Max(0, Len(xs) + n))

\* (variant: the filter tests the latitude only)
HasLatitude(row) == row.latitude # NULL

\* filter(Bus.latitude.isnot(None), Bus.longitude.isnot(None))
HasPosition(row) == row.latitude # NULL /\ row.longitude # NULL

\* nearest(lat, lon, max_results) on the rows of the table; a None handed to
\* haversine_m is a TypeError, which the endpoint does not catch
nearest(rows, lat, lon, max_results) ==
    LET stops == [i \in DOMAIN MASTER_STOPS |->
                    [stop |-> MASTER_STOPS[i],
                     dist_m |-> int_m(haversine_m(lat, lon, MASTER_STOPS[i].lat,
                                                  MASTER_STOPS[i].lon))]]
        buses == SelectSeq(rows, HasPosition)
    IN IF \E i \in DOMAIN buses : buses[i].latitude = NULL \/ buses[i].longitude = NULL
       THEN [error |-> "TypeError"]
       ELSE LET bus_list == [i \in DOMAIN buses |->
                               [bus_id |-> buses[i].bus_id, lat |-> buses[i].latitude,
                                lon |-> buses[i].longitude,
                                occupancy |-> buses[i].occupancy,
                                dist_m |-> int_m(haversine_m(lat, lon, buses[i].latitude,
                                                             buses[i].longitude))]]
            IN [nearest_stops |-> SliceTo(SortByDist(stops), max_results),
                nearest_buses |-> SliceTo(SortByDist(bus_list), max_results)]

\* the stored rows of the nearest queries: two buses within a metre of each
\* other, one a whole metre away on the other side, rows without a latitude,
\* without a longitude and without both
NearRows ==
    { Row(101, 1800, 0, 10), Row(101, NULL, NULL, 10),
      Row(102, 400, 0, 10), Row(102, NULL, 0, 10), Row(102, 4000, 0, 10),
      Row(103, 0 - 1800, 0, 10), Row(103, 0, NULL, 10) }

\* the query points and the values of max_results of the requests
NearPoints == {<<0, 0>>, <<2000, 0>>}
NearLimits == {0 - 1, 0, 1, 2, 5}

InitNearest ==
    /\ bt = << >>
    /\ loc = << >>
    /\ obs = << >>
    /\ ticks = << >>
    /\ thr = << >>
    /\ sim_thread = 0
    /\ req = << >>
    /\ overlap = FALSE
    /\ table \in TablesOf(NearRows)
    /\ hs = << >>
    /\ lastok = << >>
    /\ written = << >>
    /\ hashes = << >>
    /\ resp = NoResp
    /\ prev = NoResp
    /\ mark = NoMark
    /\ last = [called |-> FALSE, seg |-> 0]

\* a call nearest(lat, lon, max_results)
Nearest ==
    /\ \E pt \in NearPoints, n \in NearLimits :
          resp' = [op |-> "nearest", args |-> [lat |-> pt[1], lon |-> pt[2], max_results |-> n],
                   out |-> nearest(table, pt[1], pt[2], n)]
    /\ UNCHANGED <<table, hs, lastok, written, hashes, prev, busVars, simVars, stepVars>>

SpecNearest == InitNearest /\ [][Nearest]_vars

\* ------------------------------------------------------ main.get_all_buses
\* bus_to_dict: the columns but the primary key; float() and int() leave
\* the stored numbers as they are and None stays None
bus_to_dict(bus) ==
    [bus_id |-> bus.bus_id, latitude |-> bus.latitude, longitude |-> bus.longitude,
     occupancy |-> bus.occupancy, route |-> bus.route, last_update |-> bus.last_update]

\* the SQL comparisons col >= v and col <= v: not true of a NULL column
\* (variant: the lower bounds are exclusive)
SqlGt(col, v) == col # NULL /\ col > v

SqlGe(col, v) == col # NULL /\ col >= v

SqlLe(col, v) == col # NULL /\ col <= v

\* the WHERE clause get_all_buses builds; an Optional bound that is None
\* (NULL here) adds no filter
InBox(row, min_lat, max_lat, min_lon, max_lon) ==
    /\ min_lat # NULL => SqlGe(row.latitude, min_lat)
    /\ max_lat # NULL => SqlLe(row.latitude, max_lat)
    /\ min_lon # NULL => SqlGe(row.longitude, min_lon)
    /\ max_lon # NULL => SqlLe(row.longitude, max_lon)

\* get_all_buses(as_map, min_lat, max_lat, min_lon, max_lon)
get_all_buses(rows, as_map, min_lat, max_lat, min_lon, max_lon) ==
    LET Keep(row) == InBox(row, min_lat, max_lat, min_lon, max_lon)
        buses == SelectSeq(rows, Keep)
        out == [i \in DOMAIN buses |-> bus_to_dict(buses[i])]
    IN IF as_map
       THEN [b \in {out[i].bus_id : i \in DOMAIN out} |->
               out[CHOOSE i \in DOMAIN out :
                      /\ out[i].bus_id = b
                      /\ \A j \in DOMAIN out : out[j].bus_id = b => j <= i]]
       ELSE out

\* the stored rows of the box queries: coordinates on the bounds, inside and
\* outside them, and rows that lack one coordinate or both
BoxRows ==
    { Row(101, 0, 0, 10), Row(101, NULL, NULL, 10),
      Row(102, 1800, 500, 10), Row(102, NULL, 500, 10),
      Row(103, 0 - 1800, 0, 10), Row(103, 0, NULL, 10) }

\* the bounds of the requests (NULL: the parameter is left out)
BoxLats == {NULL, 0, 1800}
BoxLons == {NULL, 0, 500}

InitBox ==
    /\ bt = << >>
    /\ loc = << >>
    /\ obs = << >>
    /\ ticks = << >>
    /\ thr = << >>
    /\ sim_thread = 0
    /\ req = << >>
    /\ overlap = FALSE
    /\ table \in TablesOf(BoxRows)
    /\ hs = << >>
    /\ lastok = << >>
    /\ written = << >>
    /\ hashes = << >>
    /\ resp = NoResp
    /\ prev = NoResp
    /\ mark = NoMark
    /\ last = [called |-> FALSE, seg |-> 0]

\* a request GET /buses
GetAllBuses ==
    /\ \E as_map \in BOOLEAN, min_lat \in BoxLats, max_lat \in BoxLats,
          min_lon \in BoxLons, max_lon \in BoxLons :
          resp' = [op |-> "buses",
                   args |-> [as_map |-> as_map, min_lat |-> min_lat, max_lat |-> max_lat,
                             min_lon |-> min_lon, max_lon |-> max_lon],
                   out |-> get_all_buses(table, as_map, min_lat, max_lat, min_lon, max_lon)]
    /\ UNCHANGED <<table, hs, lastok, written, hashes, prev, busVars, simVars, stepVars>>

SpecBox == InitBox /\ [][GetAllBuses]_vars

\* ------------------------------------------------- main.get_buses_enriched
\* BUS_CATALOG in its order (ids PTC101..PTC107 as 101..107): number, name,
\* rating in tenths, reserved_disabled and ramp of each entry; the lists of
\* stop names are left out
BUS_CATALOG ==
    << [bus_id |-> 101, number |-> "18C", name |-> "Amritsar -> Jalandhar -> Ludhiana -> Patiala",
        rating |-> 42, reserved_disabled |-> 2, ramp |-> TRUE],
       [bus_id |-> 102, number |-> "21G", name |-> "Bathinda -> Mansa -> Barnala -> Sangrur",
        rating |-> 40, reserved_disabled |-> 1, ramp |-> TRUE],
       [bus_id |-> 103, number |-> "70", name |-> "Ferozepur -> Abohar -> Fazilka -> Muktsar",
        rating |-> 45, reserved_disabled |-> 0, ramp |-> FALSE],
       [bus_id |-> 104, number |-> "105", name |-> "Gurdaspur -> Pathankot -> Dera Baba Nanak -> Batala",
        rating |-> 41, reserved_disabled |-> 1, ramp |-> FALSE],
       [bus_id |-> 105, number |-> "PU", name |-> "Punjab University -> Chandigarh -> Mohali -> Kharar",
        rating |-> 43, reserved_disabled |-> 2, ramp |-> TRUE],
       [bus_id |-> 106, number |-> "12B", name |-> "Amritsar -> Tarn Taran -> Patti -> Ferozepur",
        rating |-> 40, reserved_disabled |-> 1, ramp |-> TRUE],
       [bus_id |-> 107, number |-> "47A", name |-> "Ludhiana -> Jagraon -> Moga -> Faridkot",
        rating |-> 39, reserved_disabled |-> 1, ramp |-> FALSE] >>

\* BUS_CATALOG.get(bus_id, {}) for an id of the catalog
Meta(bus_id) == BUS_CATALOG[CHOOSE i \in DOMAIN BUS_CATALOG : BUS_CATALOG[i].bus_id = bus_id]

STATUSES == <<"on-time", "delayed", "early">>

\* (variant: the status turns with the 10-minute window)
SpinTenMinutes(t) == t \div 600

\* spin = int(time.time() // 300)
Spin(t) == t \div 300

\* ["on-time", "delayed", "early"][(abs(hash(bus_id)) + spin) % 3]
StatusOf(h, t) == STATUSES[((Abs(h) + Spin(t)) % 3) + 1]

\* (variant: the fallback turns with the minute)
OccWindowMinute(t) == t \div 60

\* int(time.time() // 600)
OccWindow(t) == t \div 600

\* occ = 10 + (abs(hash(bus_id)) + int(time.time() // 600) * 5) % 50
SynthOcc(h, t) == 10 + ((Abs(h) + OccWindow(t) * 5) % 50)

\* (variant: the thresholds are 80% and 60% of the capacity of 50)
OccLabelByCapacity(occ) ==
    IF occ >= 40 THEN "crowded"
    ELSE IF occ >= 30 THEN "moderate"
    ELSE "available"

\* the if/elif/else on occ
OccLabel(occ) ==
    IF occ >= 80 THEN "crowded"
    ELSE IF occ >= 60 THEN "moderate"
    ELSE "available"

\* _merge_bus(b) called at time t in a process whose hash(b.bus_id) is h
\* (both reads of time.time() of one call are taken as t)
merge_bus(b, h, t) ==
    LET meta == Meta(b.bus_id)
        occ == IF b.occupancy = NULL THEN SynthOcc(h, t) ELSE b.occupancy
    IN [bus_id |-> b.bus_id, latitude |-> b.latitude, longitude |-> b.longitude,
        occupancy |-> occ, route |-> b.route, last_update |-> b.last_update,
        number |-> meta.number, name |-> meta.name, rating |-> meta.rating,
        reserved_disabled |-> meta.reserved_disabled, ramp |-> meta.ramp,
        status |-> StatusOf(h, t), occupancy_label |-> OccLabel(occ)]

\* (variant: the made-up entry carries no occupancy and no labels)
PlaceholderBare(meta) ==
    [bus_id |-> meta.bus_id, latitude |-> NULL, longitude |-> NULL, occupancy |-> NULL,
     route |-> meta.name, number |-> meta.number, name |-> meta.name,
     rating |-> meta.rating, status |-> "unknown", occupancy_label |-> "unknown"]

\* the entry get_buses_enriched makes up for a catalog id without a row
Placeholder(meta) ==
    [bus_id |-> meta.bus_id, latitude |-> NULL, longitude |-> NULL, occupancy |-> 0,
     route |-> meta.name, number |-> meta.number, name |-> meta.name,
     rating |-> meta.rating, status |-> "on-time", occupancy_label |-> "available"]

\* get_buses_enriched() at time t
get_buses_enriched(rows, hs_, t) ==
    [k \in DOMAIN BUS_CATALOG |->
       LET bid == BUS_CATALOG[k].bus_id
       IN IF \E i \in DOMAIN rows : rows[i].bus_id = bid
          THEN merge_bus(rows[CHOOSE i \in DOMAIN rows :
                                 /\ rows[i].bus_id = bid
                                 /\ \A j \in DOMAIN rows : rows[j].bus_id = bid => j <= i],
                         hs_[bid], t)
          ELSE Placeholder(BUS_CATALOG[k])]

\* the stored rows of the enriched queries: occupancies around 30, 40, 60
\* and 80, rows without occupancy, and a bus that is not in the catalog
EnrichRows ==
    { Row(101, 0, 0, NULL), Row(101, 0, 0, 30), Row(101, 0, 0, 40),
      Row(101, 0, 0, 45), Row(101, 0, 0, 60), Row(101, 0, 0, 80),
      Row(102, 1800, 500, NULL), Row(102, 1800, 500, 10),
      Row(108, 0, 0, 10) }

\* hash() of a str is any integer, fixed for the life of the process
HashVals == {0 - 5, 0, 7}

\* time.time() at the requests
EnrichTimes == {0, 299, 300, 600, 900, 1200}

InitEnrich ==
    /\ bt = << >>
    /\ loc = << >>
    /\ obs = << >>
    /\ ticks = << >>
    /\ thr = << >>
    /\ sim_thread = 0
    /\ req = << >>
    /\ overlap = FALSE
    /\ table \in TablesOf(EnrichRows)
    /\ hs = << >>
    /\ lastok = << >>
    /\ written = << >>
    /\ hashes \in [{101, 102} -> HashVals]
    /\ resp = NoResp
    /\ prev = NoResp
    /\ mark = NoMark
    /\ last = [called |-> FALSE, seg |-> 0]

\* a request GET /buses_enriched; the clock does not run backwards
Enriched ==
    /\ \E t \in EnrichTimes :
          /\ resp.op = "enriched" => t >= resp.args.now
          /\ resp' = [op |-> "enriched", args |-> [now |-> t],
                      out |-> get_buses_enriched(table, hashes, t)]
    /\ prev' = resp
    /\ UNCHANGED <<table, hs, lastok, written, hashes, busVars, simVars, stepVars>>

SpecEnrich == InitEnrich /\ [][Enriched]_vars

\* ------------------------- a simulated bus, the store and the enriched view
\* update_bus(payload) run alone from its query to its commit
Upserted(rows, payload, now_ts) ==
    LET f == FirstRow(rows, payload.bus_id)
    IN IF f # 0
       THEN FlushUpdate(rows, rows[f], Assigned(rows[f], payload, now_ts))
       ELSE Append(rows, NewBus(Len(rows) + 1, payload, now_ts))

\* hash() values whose fallback occupancies are the smallest and the largest
PipeHashVals == {0, 49}

\* PTC101 is simulated; PTC102 may have a row without occupancy
InitPipe ==
    /\ \E occ \in {OCC_INIT_LO, OCC_INIT_HI}, sp \in SpawnSpeeds :
          bt = <<BusThread(101, ROUTES[1], POST_INTERVAL, occ, sp)>>
    /\ loc = << >>
    /\ obs = << >>
    /\ ticks = << >>
    /\ thr = << >>
    /\ sim_thread = 0
    /\ req = << >>
    /\ overlap = FALSE
    /\ table \in TablesOf({Row(102, 1800, 500, NULL)})
    /\ hs = << >>
    /\ lastok = << >>
    /\ written = << >>
    /\ hashes \in [{101, 102} -> PipeHashVals]
    /\ resp = NoResp
    /\ prev = NoResp
    /\ mark = NoMark
    /\ last = [called |-> FALSE, seg |-> 0]

\* one iteration of run, POST_INTERVAL after the one before: step,
\* make_payload, and the post, which update_bus stores (a post that fails
\* leaves in the store the row of an earlier iteration)
PipeTick ==
    /\ \E rnd \in Draws(bt[1], POST_INTERVAL), j \in JitterDraws :
          LET self == step(bt[1], POST_INTERVAL, rnd)
          IN /\ bt' = [bt EXCEPT ![1] = self]
             /\ table' = Upserted(table, make_payload(self, j[1], j[2]), 0)
    /\ resp' = NoResp
    /\ UNCHANGED <<loc, obs, ticks, simVars, hs, lastok, written, hashes, prev, stepVars>>

\* a request GET /buses_enriched
PipeEnriched ==
    /\ \E t \in EnrichTimes :
          resp' = [op |-> "enriched", args |-> [now |-> t],
                   out |-> get_buses_enriched(table, hashes, t)]
    /\ UNCHANGED <<table, hs, lastok, written, hashes, prev, busVars, simVars, stepVars>>

NextPipe == PipeTick \/ PipeEnriched

SpecPipe == InitPipe /\ [][NextPipe]_vars

\* -------------------------------------------- main.update_passenger_count
\* what "except Exception" makes of whatever the try block raised, the
\* HTTPException(404) of "if not bus" included
CountFailed == [status_code |-> 500, detail |-> "Failed to update passenger count"]

\* bus.occupancy after the if/elif on payload.action
CountedOccupancy(old, action) ==
    IF action = "increment" THEN Min(50, old + 1)
    ELSE IF action = "decrement" THEN Max(0, old - 1)
    ELSE old

\* update_passenger_count(payload) on the rows of the store; commit_ok tells
\* whether db.commit() succeeds.  Gives the rows afterwards and the answer.
update_passenger_count(rows, bus_id, action, commit_ok) ==
    LET i == FirstRow(rows, bus_id)
    IN IF i = 0
       THEN [rows |-> rows, out |-> CountFailed]
       ELSE IF rows[i].occupancy = NULL /\ action \in {"increment", "decrement"}
       THEN [rows |-> rows, out |-> CountFailed]
       ELSE IF ~commit_ok
       THEN [rows |-> rows, out |-> CountFailed]
       ELSE LET new == CountedOccupancy(rows[i].occupancy, action)
            IN [rows |-> [rows EXCEPT ![i].occupancy = new],
                out |-> [status_code |-> 200, status |-> "ok", new_count |-> new]]

\* rows as POST /update leaves them: occupancy is any integer of the payload
CountRows ==
    { Row(101, 0, 0, 0 - 2), Row(101, 0, 0, 0), Row(101, 0, 0, 49),
      Row(101, 0, 0, 50), Row(101, 0, 0, 52), Row(102, 1800, 500, NULL),
      Row(102, 1800, 500, 8) }

\* bus_id and action of the requests; 103 is never stored
CountIds == {101, 102, 103}

CountActions == {"increment", "decrement", "reset"}

InitCount ==
    /\ bt = << >>
    /\ loc = << >>
    /\ obs = << >>
    /\ ticks = << >>
    /\ thr = << >>
    /\ sim_thread = 0
    /\ req = << >>
    /\ overlap = FALSE
    /\ table \in TablesOf(CountRows)
    /\ hs = << >>
    /\ lastok = << >>
    /\ written = << >>
    /\ hashes = << >>
    /\ resp = NoResp
    /\ prev = NoResp
    /\ mark = NoMark
    /\ last = [called |-> FALSE, seg |-> 0]

\* a request POST /update_passenger_count; the answer is kept with the rows
\* before and after it
PassengerCount ==
    /\ \E bus_id \in CountIds, action \in CountActions, commit_ok \in BOOLEAN :
          LET r == update_passenger_count(table, bus_id, action, commit_ok)
          IN /\ table' = r.rows
             /\ resp' = [op |-> "count",
                         args |-> [bus_id |-> bus_id, action |-> action, before |-> table],
                         out |-> r.out, after |-> r.rows]
    /\ UNCHANGED <<hs, lastok, written, hashes, prev, busVars, simVars, stepVars>>

SpecCount == InitCount /\ [][PassengerCount]_vars

\* ================================================================== claims

\* C1: after any sequence of step calls (dt >= 0, any random outcomes) from a
\* fresh BusThread, occupancy is an integer in [0, 50].
C1_OccupancyInRange ==
    \A i \in DOMAIN bt : bt[i].occupancy \in 0 .. CAPACITY

\* a bus filled up to the capacity by boardings
C1_Witness ==
    \E i \in DOMAIN bt : bt[i].occupancy = CAPACITY /\ bt[i].current_segment > 0

\* C7: from frac = 0 on a segment of positive length L, step calls whose dt
\* sum to L / (speed/3600) leave the bus exactly one segment further, frac = 0,
\* however the total is split.
C7_ExactlyOneSegment ==
    (/\ mark.active
     /\ FRAC_NUM * bt[1].speed_kmph * mark.acc
          = FRAC_DEN * bt[1].segments[mark.seg + 1].dist_km)
    => /\ bt[1].current_segment = (mark.seg + 1) % Len(bt[1].segments)
       /\ bt[1].frac = 0

\* C8: after construction and after every step, current_segment is a valid
\* index and frac is in [0, 1).
C8_SegmentAndFracInRange ==
    \A i \in DOMAIN bt :
       /\ bt[i].current_segment \in 0 .. (Len(bt[i].segments) - 1)
       /\ bt[i].frac >= 0
       /\ bt[i].frac < FracDen(bt[i])

\* a bus part of the way along a later segment
C8_Witness ==
    \E i \in DOMAIN bt : bt[i].current_segment > 0 /\ bt[i].frac > 0

\* C9: a step on a segment with dist_km <= 0 completes it in that call
\* whatever dt is, and a bus that keeps ticking with positive dt visits every
\* segment index again and again.
C9_ZeroLengthNeverStalls ==
    /\ [](last.called /\ bt[1].segments[last.seg + 1].dist_km <= 0
            => /\ bt[1].current_segment = (last.seg + 1) % Len(bt[1].segments)
               /\ bt[1].frac = 0)
    /\ \A i \in 0 .. 2 :
          []<>(i < Len(bt[1].segments) => bt[1].current_segment = i)

\* a bus that has left one zero-length segment and stands on the next
C9_Witness ==
    /\ bt[1].current_segment = 1
    /\ CurSeg(bt[1]).dist_km = 0
    /\ bt[1].segments[1].dist_km = 0


\* the positions of a started run loop
RunPcs == {"begin", "top", "step", "payload", "post", "sleep"}

\* C4: a post that raises, times out or answers >= 400 never ends the loop of
\* run: the thread sleeps post_interval and steps (and so posts) again, so
\* ticks recur forever whatever the outcomes of the sink.
C4_EmitFailureNeverStopsLoop ==
    /\ [](loc[1].pc \in RunPcs)
    /\ []<>(loc[1].pc = "step")
    /\ (loc[1].pc = "sleep" /\ obs[1].r \in {"http_error", "exception"})
          ~> (loc[1].pc = "step" /\ loc[1].dt >= bt[1].post_interval)

\* the thread has slept after a post that raised and is back at the top of
\* the loop
C4_Witness ==
    /\ loc[1].pc = "top"
    /\ obs[1].r = "exception"
    /\ loc[1].since >= bt[1].post_interval

\* C5: an iteration of run is one step(dt) with dt the time since the previous
\* timestamp, then one post of the payload made after that step, then one
\* sleep of post_interval; a failed post is not retried within the iteration.
C5_OneStepOneEmitOneSleep ==
    \A t \in DOMAIN loc :
       /\ loc[t].pc = "step" =>
             /\ obs[t].steps = 0 /\ obs[t].emits = 0
             /\ loc[t].dt = obs[t].exp_dt
       /\ loc[t].pc = "payload" => obs[t].steps = 1 /\ obs[t].emits = 0
       /\ loc[t].pc = "post" =>
             /\ obs[t].steps = 1 /\ obs[t].emits = 0
             /\ \E j \in JitterDraws :
                   loc[t].payload = make_payload(bt[t], j[1], j[2])
       /\ loc[t].pc = "sleep" => obs[t].steps = 1 /\ obs[t].emits = 1
       /\ loc[t].pc = "top" =>
             \/ obs[t].steps = 0 /\ obs[t].emits = 0 /\ obs[t].r = None
                /\ loc[t].since = 0
             \/ /\ obs[t].steps = 1 /\ obs[t].emits = 1
                /\ obs[t].slept >= bt[t].post_interval

\* a thread asleep after the failed post of a later iteration
C5_Witness ==
    \E t \in DOMAIN loc :
       /\ loc[t].pc = "sleep"
       /\ obs[t].r = "http_error"
       /\ bt[t].current_segment > 0
       /\ obs[t].slept > 0

\* C6: what one BusThread does (step, snapshot, post, whether the post
\* succeeds, fails or blocks) leaves the motion state and the run loop of
\* every other BusThread unchanged, and while one thread is blocked in its
\* post every other thread can take its next move.
C6_VehiclesIndependent ==
    /\ [][\A t \in DOMAIN bt :
            bt'[t] # bt[t] =>
               /\ loc[t].pc = "step"
               /\ \A u \in DOMAIN bt \ {t} : bt'[u] = bt[u]]_vars
    /\ [][\A u \in DOMAIN bt :
            loc'[u] # loc[u] =>
               \A t \in DOMAIN bt \ {u} :
                  bt'[t] = bt[t] /\ loc'[t] = loc[t] /\ obs'[t] = obs[t]]_vars
    /\ [](\A t \in DOMAIN bt, u \in DOMAIN bt :
            (/\ t # u
             /\ loc[u].pc = "post"
             /\ ~(loc[t].pc = "top" /\ ticks[t] >= MaxTicks))
            => ENABLED FleetRun(t))

\* one thread has finished a segment in its second iteration while another
\* is still blocked in the post of its first
C6_Witness ==
    \E t \in DOMAIN bt, u \in DOMAIN bt :
       /\ t # u
       /\ loc[u].pc = "post" /\ obs[u].lag = MaxLag /\ ticks[u] = 1
       /\ ticks[t] = 2 /\ bt[t].current_segment = 1
       /\ bt[u].current_segment = 0

Alive == {h \in DOMAIN thr : thr[h].state = "alive"}

\* C2: a /start-sim call made while the simulator thread is alive answers
\* started = false and creates no thread; a simulator thread never ends; and
\* when the calls come one after another, at most one answers started = true
\* and every call after it is such a no-op.
C2_IdempotentStart ==
    /\ [](\A q \in DOMAIN req :
            req[q].pc = "done" /\ req[q].saw_alive =>
               /\ req[q].result = "false"
               /\ \A h \in DOMAIN thr : thr[h].by # q)
    /\ [][\A h \in DOMAIN thr : thr[h].state = "alive" => thr'[h].state = "alive"]_vars
    /\ [](~overlap =>
            /\ Cardinality({q \in DOMAIN req : req[q].result = "true"}) <= 1
            /\ Cardinality(Alive) <= 1
            /\ Len(bt) <= NUM_BUSES
            /\ \A q \in DOMAIN req :
                  req[q].pc = "done" /\ req[q].after_true =>
                     req[q].saw_alive /\ req[q].result = "false")

\* a call made after the simulator was started and had built its fleet
\* answered started = false
C2_Witness ==
    /\ ~overlap
    /\ Len(bt) = NUM_BUSES
    /\ \E q \in DOMAIN req :
          req[q].pc = "done" /\ req[q].after_true /\ req[q].result = "false"

\* C3: under any interleaving of concurrent /start-sim requests at most one
\* simulator runner is ever started, so no two BusThreads share a bus id.
C3_AtMostOneRunner ==
    /\ Cardinality(Alive) <= 1
    /\ \A t \in DOMAIN bt, u \in DOMAIN bt : t # u => bt[t].bus_id # bt[u].bus_id

RowsOf(b) == {i \in DOMAIN table : table[i].bus_id = b}

\* C10: after any sequence of update_bus calls the table holds exactly one
\* row per bus_id ever updated, and its latitude, longitude, occupancy and
\* route are those of the latest update that succeeded.
C10_LastWriteWins ==
    \A b \in DOMAIN lastok :
       IF lastok[b].n = 0
       THEN RowsOf(b) = {}
       ELSE /\ Cardinality(RowsOf(b)) = 1
            /\ \A i \in RowsOf(b) :
                  /\ table[i].latitude = lastok[b].payload.latitude
                  /\ table[i].longitude = lastok[b].payload.longitude
                  /\ table[i].occupancy = lastok[b].payload.occupancy
                  /\ table[i].route = lastok[b].payload.route

\* both buses have a row, one of them has been updated at least twice, and
\* the call just served answered ok
C10_Witness ==
    /\ \A b \in DOMAIN lastok : lastok[b].n > 0
    /\ \E b \in DOMAIN lastok : lastok[b].n = 2 /\ lastok[b].payload.route = None
    /\ \E h \in DOMAIN hs : hs[h].result = "ok"

\* C20: in every state reached by construction and step calls, neither the
\* next step (whatever its dt) nor get_current_latlon raises: every randint
\* range of step is non-empty, the divisor is not zero and the segment index
\* exists, also on zero-length segments and at occupancy 0 or 50.
C20_StepAndLatLonNeverRaise ==
    \A i \in DOMAIN bt :
       /\ \A dt \in 0 .. MaxDt : ~StepRaises(bt[i], dt)
       /\ ~LatLonRaises(bt[i])

\* an empty bus standing on a zero-length segment after a step
C20_Witness ==
    /\ last.called
    /\ bt[1].occupancy = 0
    /\ CurSeg(bt[1]).dist_km = 0

\* C11: however concurrent update_bus calls for one bus_id interleave, the
\* table never holds two rows for the id, and once no call is in progress the
\* row carries the latitude, longitude, occupancy and route of one single
\* call among those that answered ok.
C11_ConcurrentUpdatesSerialized ==
    \A b \in DOMAIN written :
       /\ Cardinality(RowsOf(b)) <= 1
       /\ (written[b] # {} /\ \A h \in DOMAIN hs : hs[h].pc = "idle") =>
             \E i \in RowsOf(b), p \in written[b] :
                /\ table[i].latitude = p.latitude
                /\ table[i].longitude = p.longitude
                /\ table[i].occupancy = p.occupancy
                /\ table[i].route = p.route

\* the place of a stop in MASTER_STOPS and of a bus in the table
StopIndex(name) == CHOOSE i \in DOMAIN MASTER_STOPS : MASTER_STOPS[i].name = name
BusIndex(bus_id) == FirstRow(table, bus_id)

NearestAnswered == resp.op = "nearest" /\ "error" \notin DOMAIN resp.out

\* the two lists of a nearest answer as sequences of
\* [dist_m, idx, exact]: the reported whole metres, the place in the input
\* and the distance from the query point in DistUnit
NearLists ==
    { [i \in DOMAIN resp.out.nearest_stops |->
         LET e == resp.out.nearest_stops[i]
         IN [dist_m |-> e.dist_m, idx |-> StopIndex(e.stop.name),
             exact |-> haversine_m(resp.args.lat, resp.args.lon, e.stop.lat, e.stop.lon)]],
      [i \in DOMAIN resp.out.nearest_buses |->
         LET e == resp.out.nearest_buses[i]
         IN [dist_m |-> e.dist_m, idx |-> BusIndex(e.bus_id),
             exact |-> haversine_m(resp.args.lat, resp.args.lon, e.lat, e.lon)]] }

C14_NearestWithinLimit ==
    NearestAnswered =>
       /\ Len(resp.out.nearest_stops) <= resp.args.max_results
       /\ Len(resp.out.nearest_buses) <= resp.args.max_results
       /\ Len(MASTER_STOPS) >= resp.args.max_results =>
             Len(resp.out.nearest_stops) = resp.args.max_results
       /\ Len(SelectSeq(table, HasPosition)) >= resp.args.max_results =>
             Len(resp.out.nearest_buses) = resp.args.max_results

\* C15: a nearest answer lists no bus whose row lacks the latitude or the
\* longitude; such rows do not count towards the limit and never make the
\* query fail.
C15_NoBusWithoutPosition ==
    resp.op = "nearest" =>
       /\ "error" \notin DOMAIN resp.out
       /\ \A i \in DOMAIN resp.out.nearest_buses :
             LET e == resp.out.nearest_buses[i]
             IN /\ e.lat # NULL /\ e.lon # NULL
                /\ table[BusIndex(e.bus_id)].latitude # NULL
                /\ table[BusIndex(e.bus_id)].longitude # NULL
       /\ resp.args.max_results >= 0 =>
             Len(resp.out.nearest_buses)
               = Min(resp.args.max_results,
                     Cardinality({i \in DOMAIN table :
                                    table[i].latitude # NULL /\ table[i].longitude # NULL}))

\* three stored buses of which one has a position, and a limit above that
C15_Witness ==
    /\ NearestAnswered
    /\ Len(table) = 3
    /\ \E i \in DOMAIN table : table[i].latitude = NULL /\ table[i].longitude # NULL
    /\ \E i \in DOMAIN table : table[i].latitude # NULL /\ table[i].longitude = NULL
    /\ resp.args.max_results = 5
    /\ Len(resp.out.nearest_buses) = 1

\* the bus_ids a /buses answer holds (a list, or a map keyed by bus_id)
BoxIds ==
    IF resp.args.as_map THEN DOMAIN resp.out
    ELSE {resp.out[i].bus_id : i \in DOMAIN resp.out}

AnyBound ==
    \/ resp.args.min_lat # NULL \/ resp.args.max_lat # NULL
    \/ resp.args.min_lon # NULL \/ resp.args.max_lon # NULL

\* C16: /buses returns the vehicles that meet every bound supplied and no
\* other: a coordinate equal to the bound passes, a bound left out does not
\* constrain, a vehicle without coordinates is left out as soon as one bound
\* is supplied, and without any bound every vehicle with coordinates is
\* returned.
C16_BoundingBoxFilter ==
    resp.op = "buses" =>
       \A i \in DOMAIN table :
          LET r == table[i]
              lat_ok == /\ resp.args.min_lat # NULL =>
                              r.latitude # NULL /\ ~(r.latitude < resp.args.min_lat)
                        /\ resp.args.max_lat # NULL =>
                              r.latitude # NULL /\ ~(r.latitude > resp.args.max_lat)
              lon_ok == /\ resp.args.min_lon # NULL =>
                              r.longitude # NULL /\ ~(r.longitude < resp.args.min_lon)
                        /\ resp.args.max_lon # NULL =>
                              r.longitude # NULL /\ ~(r.longitude > resp.args.max_lon)
          IN /\ r.bus_id \in BoxIds <=> (lat_ok /\ lon_ok)
             /\ (AnyBound /\ r.latitude = NULL /\ r.longitude = NULL) => r.bus_id \notin BoxIds
             /\ (~AnyBound /\ r.latitude # NULL /\ r.longitude # NULL) => r.bus_id \in BoxIds

\* a box whose bounds are the coordinates of a stored vehicle, which is
\* returned while a vehicle lacking a coordinate and one outside are not
C16_Witness ==
    /\ resp.op = "buses"
    /\ Len(table) = 3
    /\ resp.args.min_lat = 0 /\ resp.args.max_lat = 0
    /\ resp.args.min_lon = 0 /\ resp.args.max_lon = 0
    /\ BoxIds = {101}
    /\ \E i \in DOMAIN table : table[i].latitude = 0 /\ table[i].longitude = NULL

\* ---------------------------------------------------------- enriched view
StoredIds == {table[i].bus_id : i \in DOMAIN table}

\* the entries of an enriched answer that come from a stored row
StoredEntries(r) == {k \in DOMAIN r.out : r.out[k].bus_id \in StoredIds}

\* index of the 5-minute window of a time
Window5(t) == t \div 300

\* index of the 10-minute window of a time
Window10(t) == t \div 600

\* the cycle on-time -> delayed -> early -> on-time
StatusAfter(st) ==
    CASE st = "on-time" -> "delayed"
      [] st = "delayed" -> "early"
      [] st = "early" -> "on-time"

\* C12: in an enriched answer the occupancy label is "crowded" from 80% of
\* the capacity of 50 (40 passengers), "moderate" from 60% (30 passengers)
\* and "available" below; occupancy 45 is labelled "crowded".
C12_OccupancyLabelByCapacity ==
    resp.op = "enriched" =>
       \A k \in DOMAIN resp.out :
          LET e == resp.out[k]
          IN e.occupancy_label = IF e.occupancy >= 40 THEN "crowded"
                                 ELSE IF e.occupancy >= 30 THEN "moderate"
                                 ELSE "available"

\* the vehicles named by the answer of an aggregation
AggregationIds ==
    IF resp.op = "enriched" THEN {resp.out[k].bus_id : k \in DOMAIN resp.out}
    ELSE IF resp.op = "buses" THEN BoxIds
    ELSE IF NearestAnswered
         THEN {resp.out.nearest_buses[i].bus_id : i \in DOMAIN resp.out.nearest_buses}
    ELSE {}

\* C17: a vehicle that is not in the store appears in no aggregation answer
\* (nearest vehicles, bounding box, enriched view), and the answer is never
\* an error.
C17_AbsentVehicleExcluded ==
    resp.op \in {"enriched", "buses", "nearest"} =>
       /\ resp.op = "nearest" => NearestAnswered
       /\ AggregationIds \subseteq StoredIds

\* C18: the status of a stored vehicle in an enriched answer is one of
\* on-time, delayed, early; it is the same for two vehicles of equal id hash
\* whatever their position and occupancy; two answers in the same 5-minute
\* window give a vehicle the same status, and an answer in the next window
\* gives it the next status of the cycle.
C18_StatusRotation ==
    resp.op = "enriched" =>
       \A k \in StoredEntries(resp) :
          LET e == resp.out[k]
          IN /\ e.status \in {"on-time", "delayed", "early"}
             /\ \A j \in StoredEntries(resp) :
                   hashes[resp.out[j].bus_id] = hashes[e.bus_id] =>
                      resp.out[j].status = e.status
             /\ prev.op = "enriched" =>
                   /\ Window5(resp.args.now) = Window5(prev.args.now) =>
                         e.status = prev.out[k].status
                   /\ Window5(resp.args.now) = Window5(prev.args.now) + 1 =>
                         e.status = StatusAfter(prev.out[k].status)

\* two answers on either side of a window boundary, where a status turns
\* from early to on-time, for two stored vehicles of equal hash that differ
\* in position and occupancy
C18_Witness ==
    /\ resp.op = "enriched" /\ prev.op = "enriched"
    /\ prev.args.now = 299 /\ resp.args.now = 300
    /\ hashes[101] = hashes[102]
    /\ \E i, j \in DOMAIN table :
          /\ table[i].bus_id = 101 /\ table[j].bus_id = 102
          /\ table[i].occupancy = 80 /\ table[j].occupancy = NULL
    /\ prev.out[1].status = "early" /\ resp.out[1].status = "on-time"
    /\ resp.out[2].status = "on-time"

\* C19: for a stored vehicle without occupancy the enriched answer carries
\* an occupancy, between 10 and 79, that is the same for vehicles of equal
\* id hash and for two answers in the same 10-minute window.
C19_SynthesizedOccupancy ==
    resp.op = "enriched" =>
       \A k \in StoredEntries(resp) :
          LET e == resp.out[k]
          IN table[BusIndex(e.bus_id)].occupancy = NULL =>
                /\ e.occupancy # NULL
                /\ e.occupancy \in 10 .. 79
                /\ \A j \in StoredEntries(resp) :
                      /\ table[BusIndex(resp.out[j].bus_id)].occupancy = NULL
                      /\ hashes[resp.out[j].bus_id] = hashes[e.bus_id]
                      => resp.out[j].occupancy = e.occupancy
                /\ (prev.op = "enriched"
                    /\ Window10(resp.args.now) = Window10(prev.args.now))
                   => e.occupancy = prev.out[k].occupancy

\* two answers in one 10-minute window but in different 5-minute windows,
\* for a stored vehicle without occupancy, which gets 17 both times, and a
\* later window in which another one gets a different value
C19_Witness ==
    /\ resp.op = "enriched" /\ prev.op = "enriched"
    /\ prev.args.now = 0 /\ resp.args.now = 300
    /\ hashes[101] = 7
    /\ \E i \in DOMAIN table : table[i].bus_id = 101 /\ table[i].occupancy = NULL
    /\ prev.out[1].occupancy = 17 /\ resp.out[1].occupancy = 17

\* ------------------------------------------------------------ construction
\* a configuration BusThread must not accept
InvalidConfig(c) == Len(c.route_def.stops) = 0 \/ c.post_interval < 0

\* C21: a BusThread whose route has no waypoint or whose post interval is
\* negative is refused by the constructor: no object is built for it and no
\* iteration of run is ever begun for it.
C21_InvalidConfigRejected ==
    \A k \in DOMAIN thr[1].threads :
       InvalidConfig(thr[1].configs[k]) => thr[1].threads[k] = 0

\* ---------------------------------------------------- position and snapshot
\* the interpolated point of bt[1], without jitter
Interpolated == get_current_latlon(bt[1], 0, 0)

\* the object is as the latest step left it
MotionStateKept == prev.op = "step" => bt[1] = prev.self

\* C22 as stated: position and snapshot calls leave the object as the
\* latest step left it, and every coordinate they report, rounded or not,
\* is within SIMULATION_JITTER of the interpolated point.
C22_SnapshotWithinJitter ==
    /\ MotionStateKept
    /\ resp.op = "latlon" =>
          /\ Abs(resp.out[1] - Interpolated[1]) <= SIMULATION_JITTER
          /\ Abs(resp.out[2] - Interpolated[2]) <= SIMULATION_JITTER
    /\ resp.op = "payload" =>
          /\ Abs(resp.out.latitude - Interpolated[1]) <= SIMULATION_JITTER
          /\ Abs(resp.out.longitude - Interpolated[2]) <= SIMULATION_JITTER

\* C22 (amended): position and snapshot calls leave current_segment, frac
\* and occupancy as the latest step left them, however many are made; a
\* coordinate of get_current_latlon is within SIMULATION_JITTER of the
\* interpolated point, and a coordinate of make_payload, being rounded to
\* 1e-6 degree, within SIMULATION_JITTER plus half of 1e-6 degree.
C22_SnapshotKeepsMotionState ==
    /\ MotionStateKept
    /\ resp.op = "latlon" =>
          /\ Abs(resp.out[1] - Interpolated[1]) <= SIMULATION_JITTER
          /\ Abs(resp.out[2] - Interpolated[2]) <= SIMULATION_JITTER
    /\ resp.op = "payload" =>
          /\ Abs(resp.out.latitude - Interpolated[1]) <= SIMULATION_JITTER + MICRO_DEG \div 2
          /\ Abs(resp.out.longitude - Interpolated[2]) <= SIMULATION_JITTER + MICRO_DEG \div 2
          /\ resp.out.latitude % MICRO_DEG = 0
          /\ resp.out.longitude % MICRO_DEG = 0
          /\ resp.out.occupancy = bt[1].occupancy

\* two calls after a step that left the bus inside a segment, the latest a
\* snapshot whose rounded latitude is further than SIMULATION_JITTER from
\* the interpolated point
C22_Witness ==
    /\ prev.op = "step" /\ prev.calls = 2
    /\ bt[1].frac > 0
    /\ resp.op = "payload"
    /\ Abs(resp.out.latitude - Interpolated[1]) > SIMULATION_JITTER

\* ------------------------------------------------------- one call of step
\* lengths of the segment the latest call started on and of the next one
TwoSegments ==
    LET b == prev.before
    IN CurSeg(b).dist_km
         + b.segments[((b.current_segment + 1) % Len(b.segments)) + 1].dist_km

\* C23: one call step(dt) moves current_segment on by one segment when frac
\* reaches 1.0 and leaves frac = 0, and by none otherwise, however large dt
\* is.
C23_AtMostOneSegmentPerStep ==
    prev.op = "step" =>
       LET b == prev.before
           nxt == (b.current_segment + 1) % Len(b.segments)
       IN /\ bt[1].current_segment \in {b.current_segment, nxt}
          /\ Completes(b, prev.dt) => bt[1].current_segment = nxt /\ bt[1].frac = 0
          /\ ~Completes(b, prev.dt) =>
                /\ bt[1].current_segment = b.current_segment
                /\ bt[1].frac = b.frac + FRAC_NUM * b.speed_kmph * prev.dt

\* a call whose dt covers the segment it started on and the whole of the
\* next one, and which left the bus at the start of that next segment
C23_Witness ==
    /\ prev.op = "step"
    /\ Len(prev.before.segments) > 1
    /\ CurSeg(prev.before).dist_km > 0
    /\ prev.before.frac = 0
    /\ FRAC_NUM * prev.before.speed_kmph * prev.dt >= FRAC_DEN * TwoSegments
    /\ bt[1].current_segment = prev.before.current_segment + 1
    /\ bt[1].frac = 0

\* C24: a call of step that does not complete the segment leaves occupancy
\* as it was; no call changes speed_kmph, route_name, waypoints or segments;
\* a completing call takes off at most min(3, occupancy) passengers and then
\* takes on at most min(2, 50 - occupancy), a net change within [-3, +2].
C24_OccupancyChangesAtCompletion ==
    prev.op = "step" =>
       LET b == prev.before
           a == bt[1]
       IN /\ a.speed_kmph = b.speed_kmph
          /\ a.route_name = b.route_name
          /\ a.waypoints = b.waypoints
          /\ a.segments = b.segments
          /\ ~Completes(b, prev.dt) => a.occupancy = b.occupancy
          /\ a.occupancy - b.occupancy \in (0 - 3) .. 2
          /\ a.occupancy >= b.occupancy - Min(3, b.occupancy)
          /\ a.occupancy <= Max(b.occupancy, Min(50, b.occupancy + 2))

\* a completing call on a bus with 49 passengers that left it with 50, the
\* one passenger there was room for
C24_Witness ==
    /\ prev.op = "step"
    /\ Completes(prev.before, prev.dt)
    /\ prev.before.occupancy = 49
    /\ bt[1].occupancy = 50

\* ---------------------------------------------------------- passenger count
\* the occupancy the bus of the latest request had before it
OldCount == resp.args.before[FirstRow(resp.args.before, resp.args.bus_id)].occupancy

\* C25: update_passenger_count for a bus_id without a row answers 404
\* "Bus not found", not the 500 of an internal failure, and leaves the store
\* as it was.
C25_UnknownBusNotFound ==
    (resp.op = "count" /\ FirstRow(resp.args.before, resp.args.bus_id) = 0) =>
       /\ resp.out.status_code = 404
       /\ resp.out.detail = "Bus not found"
       /\ resp.after = resp.args.before

\* C26: after a successful update_passenger_count the stored occupancy,
\* which is the new_count answered, is in [0, 50] whatever integer the row
\* held: min(50, old + 1) for "increment", max(0, old - 1) for "decrement",
\* old for any other action.
C26_CountStaysInRange ==
    (resp.op = "count" /\ resp.out.status_code = 200) =>
       /\ resp.out.new_count
            = resp.after[FirstRow(resp.after, resp.args.bus_id)].occupancy
       /\ resp.out.new_count = IF resp.args.action = "increment" THEN Min(50, OldCount + 1)
                               ELSE IF resp.args.action = "decrement" THEN Max(0, OldCount - 1)
                               ELSE OldCount
       /\ resp.out.new_count \in 0 .. 50

C28_OneEntryPerCatalogId ==
    resp.op = "enriched" =>
       /\ Len(resp.out) = Len(BUS_CATALOG)
       /\ \A k \in DOMAIN resp.out :
             LET e == resp.out[k]
             IN /\ e.bus_id = BUS_CATALOG[k].bus_id
                /\ e.number = BUS_CATALOG[k].number
                /\ e.bus_id \in StoredIds =>
                      /\ e.latitude = table[BusIndex(e.bus_id)].latitude
                      /\ e.longitude = table[BusIndex(e.bus_id)].longitude
                /\ e.bus_id \notin StoredIds =>
                      /\ e.latitude = NULL /\ e.longitude = NULL
                      /\ e.occupancy = 0
                      /\ e.status = "on-time"
                      /\ e.occupancy_label = "available"

\* an answer over a store that holds a bus outside the catalog, a bus of the
\* catalog, and no row for the second id of the catalog
C28_Witness ==
    /\ resp.op = "enriched"
    /\ StoredIds = {101, 108}
    /\ resp.out[1].latitude # NULL
    /\ resp.out[2].bus_id = 102 /\ resp.out[2].occupancy = 0
    /\ \A k \in DOMAIN resp.out : resp.out[k].bus_id # 108
====
